---- MODULE Spec2Model ----
(***************************************************************************)
(* Model of phesm's string helpers:                                        *)
(*   traits/capitalize.rs : Capitalize, CapitalizeUntrimmed                *)
(*   util/serde.rs        : trim_string, trim_optional_string              *)
(*                                                                         *)
(* A Rust string is modelled as what it is: a sequence of UTF-8 bytes.     *)
(* Range indexing (self[..1], self[idx..]) is done on byte offsets and     *)
(* panics when an offset is past the end or inside a multi-byte scalar     *)
(* value; chars are obtained by decoding the bytes.                        *)
(***************************************************************************)
EXTENDS Integers, Sequences, FiniteSets

VARIABLES pc, op, input, ret, prev

vars == <<pc, op, input, ret, prev>>

(***************************************************************************)
(* Bounds of the model.                                                    *)
(***************************************************************************)
\* Largest number of scalar values in an input string.
MaxLen == 5

\* Scalar values the inputs are built from:
\*   U+0020 SPACE (1 byte, whitespace)      U+0061 'a' (1 byte, -> 'A')
\*   U+00A0 NO-BREAK SPACE (2 bytes, whitespace)
\*   U+00DF 'ß' (2 bytes, -> "SS")           U+3000 IDEOGRAPHIC SPACE (3 bytes,
\*   whitespace)
Alphabet == {32, 97, 160, 223, 12288}

\* Errors the underlying decoder may report (D::Error values).
DecodeErrors == {"invalid_type", "eof"}

(***************************************************************************)
(* UTF-8: the byte representation of str / String.                         *)
(***************************************************************************)
\* char::encode_utf8 for scalar values below U+10000.
encode_utf8(c) ==
    IF c < 128 THEN <<c>>
    ELSE IF c < 2048 THEN <<192 + (c \div 64), 128 + (c % 64)>>
    ELSE <<224 + (c \div 4096), 128 + ((c \div 64) % 64), 128 + (c % 64)>>

\* Number of bytes of the scalar value that starts with lead byte b.
utf8_char_width(b) ==
    IF b < 128 THEN 1 ELSE IF b < 224 THEN 2 ELSE 3

\* The scalar value encoded by the bytes bs (one whole character).
decode_utf8(bs) ==
    IF Len(bs) = 1 THEN bs[1]
    ELSE IF Len(bs) = 2 THEN (bs[1] - 192) * 64 + (bs[2] - 128)
    ELSE (bs[1] - 224) * 4096 + (bs[2] - 128) * 64 + (bs[3] - 128)

\* str::chars: the scalar values of a string, in order.
RECURSIVE chars(_)
chars(s) ==
    IF s = <<>> THEN <<>>
    ELSE LET w == utf8_char_width(s[1])
         IN  <<decode_utf8(SubSeq(s, 1, w))>> \o chars(SubSeq(s, w + 1, Len(s)))

\* String::from_iter over chars: the bytes of a sequence of scalar values.
RECURSIVE from_chars(_)
from_chars(cs) ==
    IF cs = <<>> THEN <<>>
    ELSE encode_utf8(Head(cs)) \o from_chars(Tail(cs))

\* str::is_char_boundary, idx a 0-based byte offset.
is_char_boundary(s, idx) ==
    \/ idx = 0
    \/ idx = Len(s)
    \/ /\ idx > 0
       /\ idx < Len(s)
       /\ s[idx + 1] \notin 128..191

\* Whether the range index self[from..to] is accepted (it panics otherwise).
slice_ok(s, from, to) ==
    /\ from <= to
    /\ to <= Len(s)
    /\ is_char_boundary(s, from)
    /\ is_char_boundary(s, to)

\* self[from..to] where accepted.
slice(s, from, to) == SubSeq(s, from + 1, to)

(***************************************************************************)
(* Character properties used by the code.                                  *)
(***************************************************************************)
\* char::is_whitespace (Unicode White_Space).
is_whitespace(c) ==
    \/ c \in 9..13
    \/ c \in {32, 133, 160, 5760, 8232, 8233, 8239, 8287, 12288}
    \/ c \in 8192..8202

\* char::to_uppercase for the Latin-1 range and the whitespace characters:
\* the uppercase form is a sequence of one or more scalar values.
char_to_uppercase(c) ==
    IF c \in 97..122 THEN <<c - 32>>
    ELSE IF c = 181 THEN <<924>>
    ELSE IF c = 223 THEN <<83, 83>>
    ELSE IF c \in 224..254 /\ c # 247 THEN <<c - 32>>
    ELSE IF c = 255 THEN <<376>>
    ELSE <<c>>

RECURSIVE upper_chars(_)
upper_chars(cs) ==
    IF cs = <<>> THEN <<>>
    ELSE char_to_uppercase(Head(cs)) \o upper_chars(Tail(cs))

\* str::to_uppercase.
to_uppercase(s) == from_chars(upper_chars(chars(s)))

\* self.find(|c: char| !c.is_whitespace()): the byte offset of the first
\* scalar value that is not whitespace, -1 for None.
RECURSIVE find_from(_, _)
find_from(s, off) ==
    IF off >= Len(s) THEN -1
    ELSE LET w == utf8_char_width(s[off + 1])
         IN  IF ~is_whitespace(decode_utf8(SubSeq(s, off + 1, off + w)))
             THEN off
             ELSE find_from(s, off + w)

find_non_whitespace(s) == find_from(s, 0)

(***************************************************************************)
(* Outcomes: Result<Option<String>, E>, plus a panic (unwinding).          *)
(***************************************************************************)
Ok(s) == [tag |-> "Ok", opt |-> "Some", val |-> s, err |-> "none"]
OkNone == [tag |-> "Ok", opt |-> "None", val |-> <<>>, err |-> "none"]
Err(e) == [tag |-> "Err", opt |-> "None", val |-> <<>>, err |-> e]
Panic == [tag |-> "Panic", opt |-> "None", val |-> <<>>, err |-> "none"]
Nil == [tag |-> "Nil", opt |-> "None", val |-> <<>>, err |-> "none"]

(***************************************************************************)
(* traits/capitalize.rs                                                    *)
(***************************************************************************)
\* impl Capitalize for String
capitalize_String(self) ==
    IF Len(self) > 0
    THEN IF slice_ok(self, 0, 1) /\ slice_ok(self, 1, Len(self))
         THEN Ok(to_uppercase(slice(self, 0, 1)) \o slice(self, 1, Len(self)))
         ELSE Panic
    ELSE Ok(<<>>)

\* capitalize_str with the remainder taken from offset 0 instead of 1.
capitalize_str_keeps_first(self) ==
    IF Len(self) > 0
    THEN IF slice_ok(self, 0, 1) /\ slice_ok(self, 0, Len(self))
         THEN Ok(to_uppercase(slice(self, 0, 1)) \o slice(self, 0, Len(self)))
         ELSE Panic
    ELSE Ok(<<>>)

\* impl Capitalize for &str
capitalize_str(self) ==
    IF Len(self) > 0
    THEN IF slice_ok(self, 0, 1) /\ slice_ok(self, 1, Len(self))
         THEN Ok(to_uppercase(slice(self, 0, 1)) \o slice(self, 1, Len(self)))
         ELSE Panic
    ELSE Ok(<<>>)

\* let idx = self.find(..).map(|i| i + 1).unwrap_or(1);
split_idx(self) ==
    LET i == find_non_whitespace(self)
    IN  IF i >= 0 THEN i + 1 ELSE 1

\* impl CapitalizeUntrimmed for String
capitalize_untrimmed_String(self) ==
    LET idx == split_idx(self)
    IN  IF Len(self) > 0
        THEN IF slice_ok(self, 0, idx) /\ slice_ok(self, idx, Len(self))
             THEN Ok(to_uppercase(slice(self, 0, idx)) \o slice(self, idx, Len(self)))
             ELSE Panic
        ELSE Ok(<<>>)

\* impl CapitalizeUntrimmed for &str
capitalize_untrimmed_str(self) ==
    LET idx == split_idx(self)
    IN  IF Len(self) > 0
        THEN IF slice_ok(self, 0, idx) /\ slice_ok(self, idx, Len(self))
             THEN Ok(to_uppercase(slice(self, 0, idx)) \o slice(self, idx, Len(self)))
             ELSE Panic
        ELSE Ok(<<>>)

(***************************************************************************)
(* util/serde.rs                                                           *)
(***************************************************************************)
\* str::trim_start: drops leading whitespace scalar values.
RECURSIVE trim_start(_)
trim_start(s) ==
    IF s = <<>> THEN s
    ELSE LET w == utf8_char_width(s[1])
         IN  IF is_whitespace(decode_utf8(SubSeq(s, 1, w)))
             THEN trim_start(SubSeq(s, w + 1, Len(s)))
             ELSE s

\* 1-based position of the lead byte of the last scalar value of s (s # <<>>).
last_char_start(s) ==
    CHOOSE i \in 1..Len(s) :
        /\ s[i] \notin 128..191
        /\ \A j \in (i + 1)..Len(s) : s[j] \in 128..191

\* str::trim_end: drops trailing whitespace scalar values.
RECURSIVE trim_end(_)
trim_end(s) ==
    IF s = <<>> THEN s
    ELSE LET i == last_char_start(s)
         IN  IF is_whitespace(decode_utf8(SubSeq(s, i, Len(s))))
             THEN trim_end(SubSeq(s, 1, i - 1))
             ELSE s

\* str::trim
trim(s) == trim_end(trim_start(s))

\* trim_string with trim_start in place of trim.
trim_string_start_only(deserializer) ==
    IF deserializer.tag = "Err"
    THEN Err(deserializer.err)
    ELSE Ok(trim_start(deserializer.val))

\* trim_string: deserializer is the outcome of String::deserialize(deserializer).
trim_string(deserializer) ==
    IF deserializer.tag = "Err"
    THEN Err(deserializer.err)
    ELSE Ok(trim(deserializer.val))

\* trim_optional_string without the is_empty check.
trim_optional_string_keeps_empty(deserializer) ==
    IF deserializer.tag = "Err"
    THEN Err(deserializer.err)
    ELSE IF deserializer.opt = "Some"
         THEN Ok(trim(deserializer.val))
         ELSE deserializer

\* trim_optional_string with the decoder's error swallowed (.ok().flatten()
\* in place of ?).
trim_optional_string_swallows_error(deserializer) ==
    IF deserializer.tag = "Err"
    THEN OkNone
    ELSE IF deserializer.opt = "Some"
         THEN LET trimmed == trim(deserializer.val)
              IN  IF trimmed = <<>> THEN OkNone ELSE Ok(trimmed)
         ELSE deserializer

\* trim_optional_string: deserializer is the outcome of
\* Option::<String>::deserialize(deserializer).
trim_optional_string(deserializer) ==
    IF deserializer.tag = "Err"
    THEN Err(deserializer.err)
    ELSE IF deserializer.opt = "Some"
         THEN LET trimmed == trim(deserializer.val)
              IN  IF trimmed = <<>> THEN OkNone ELSE Ok(trimmed)
         ELSE deserializer

(***************************************************************************)
(* Inputs.                                                                 *)
(***************************************************************************)
\* Every string of at most MaxLen scalar values of Alphabet, as UTF-8.
Strings ==
    { from_chars(cs) : cs \in UNION { [1..n -> Alphabet] : n \in 0..MaxLen } }

\* What String::deserialize can produce.
StringOutcomes == { Ok(s) : s \in Strings } \cup { Err(e) : e \in DecodeErrors }

\* What Option::<String>::deserialize can produce.
OptionOutcomes == StringOutcomes \cup {OkNone}

CapitalizeOps ==
    {"String::capitalize", "str::capitalize"}

CapitalizeUntrimmedOps ==
    {"String::capitalize_untrimmed", "str::capitalize_untrimmed"}

TrimOps == {"trim_string", "trim_optional_string"}

(***************************************************************************)
(* The state machine: one call of one helper on one input; a capitalizer   *)
(* may then be called once more on the string it returned.                 *)
(*   pc    : "idle" before the call, "returned" after it, "reapplied"      *)
(*           after the second call                                         *)
(*   op    : the helper called                                             *)
(*   input : its argument (a string, or the decoder's outcome)             *)
(*   ret   : what the call produced (Ok / Err / Panic)                     *)
(*   prev  : the first call's input and result once a second call is made  *)
(***************************************************************************)
NoCall == [input |-> Nil, ret |-> Nil]

Init ==
    /\ pc = "idle"
    /\ op = "none"
    /\ input = Nil
    /\ ret = Nil
    /\ prev = NoCall

\* The call of helper `name` on `arg` returns (or unwinds with) `result`.
Return(name, arg, result) ==
    /\ pc' = "returned"
    /\ op' = name
    /\ input' = arg
    /\ ret' = result
    /\ UNCHANGED prev

CapitalizeString ==
    /\ pc = "idle"
    /\ \E s \in Strings :
         Return("String::capitalize", Ok(s), capitalize_String(s))

CapitalizeStr ==
    /\ pc = "idle"
    /\ \E s \in Strings :
         Return("str::capitalize", Ok(s), capitalize_str(s))

CapitalizeUntrimmedString ==
    /\ pc = "idle"
    /\ \E s \in Strings :
         Return("String::capitalize_untrimmed", Ok(s), capitalize_untrimmed_String(s))

CapitalizeUntrimmedStr ==
    /\ pc = "idle"
    /\ \E s \in Strings :
         Return("str::capitalize_untrimmed", Ok(s), capitalize_untrimmed_str(s))

TrimString ==
    /\ pc = "idle"
    /\ \E d \in StringOutcomes :
         Return("trim_string", d, trim_string(d))

TrimOptionalString ==
    /\ pc = "idle"
    /\ \E d \in OptionOutcomes :
         Return("trim_optional_string", d, trim_optional_string(d))

\* The helper named by op, applied to the string s.
Apply(name, s) ==
    CASE name = "String::capitalize" -> capitalize_String(s)
      [] name = "str::capitalize" -> capitalize_str(s)
      [] name = "String::capitalize_untrimmed" -> capitalize_untrimmed_String(s)
      [] name = "str::capitalize_untrimmed" -> capitalize_untrimmed_str(s)

\* The caller passes the returned string to the same capitalizer again.
Reapply ==
    /\ pc = "returned"
    /\ op \in CapitalizeOps \cup CapitalizeUntrimmedOps
    /\ ret.tag = "Ok"
    /\ pc' = "reapplied"
    /\ prev' = [input |-> input, ret |-> ret]
    /\ input' = ret
    /\ ret' = Apply(op, ret.val)
    /\ UNCHANGED op

Next ==
    \/ CapitalizeString
    \/ CapitalizeStr
    \/ CapitalizeUntrimmedString
    \/ CapitalizeUntrimmedStr
    \/ TrimString
    \/ TrimOptionalString
    \/ Reapply

Spec == Init /\ [][Next]_vars

(***************************************************************************)
(* Reference definitions on scalar values, used to state the properties.   *)
(***************************************************************************)
\* The string argument of the current call, as scalar values.
InChars == chars(input.val)

\* The string returned by the current call, as scalar values.
OutChars == chars(ret.val)

Called(names) == pc # "idle" /\ op \in names

\* Index of the first / last non-whitespace scalar value of cs, 0 if none.
FirstNonWs(cs) ==
    IF \E i \in 1..Len(cs) : ~is_whitespace(cs[i])
    THEN CHOOSE i \in 1..Len(cs) :
            /\ ~is_whitespace(cs[i])
            /\ \A j \in 1..(i - 1) : is_whitespace(cs[j])
    ELSE 0

LastNonWs(cs) ==
    IF \E i \in 1..Len(cs) : ~is_whitespace(cs[i])
    THEN CHOOSE i \in 1..Len(cs) :
            /\ ~is_whitespace(cs[i])
            /\ \A j \in (i + 1)..Len(cs) : is_whitespace(cs[j])
    ELSE 0

\* cs without its leading and trailing whitespace.
Trimmed(cs) ==
    IF FirstNonWs(cs) = 0 THEN <<>>
    ELSE SubSeq(cs, FirstNonWs(cs), LastNonWs(cs))

NoOuterWhitespace(cs) ==
    cs # <<>> => ~is_whitespace(cs[1]) /\ ~is_whitespace(cs[Len(cs)])

(***************************************************************************)
(* Properties.                                                             *)
(***************************************************************************)
AllCapitalizers == CapitalizeOps \cup CapitalizeUntrimmedOps

\* C1: capitalize(s) is "" for empty s, and otherwise the uppercase form of
\* the first scalar value of s followed by the remaining scalar values
\* unchanged, for every first scalar value (multi-byte ones included).
C1_CapitalizeFirstScalar ==
    Called(CapitalizeOps) =>
        ret = Ok(IF InChars = <<>>
                 THEN <<>>
                 ELSE from_chars(char_to_uppercase(Head(InChars)) \o Tail(InChars)))

\* C2: for non-empty s containing a non-whitespace scalar value,
\* capitalize_untrimmed(s) is the leading whitespace run unchanged, then the
\* uppercase form of the first non-whitespace scalar value, then the rest
\* unchanged; for empty s it is "".
C2_UntrimmedFirstNonWhitespace ==
    Called(CapitalizeUntrimmedOps) =>
        /\ InChars = <<>> => ret = Ok(<<>>)
        /\ FirstNonWs(InChars) > 0 =>
             LET k == FirstNonWs(InChars)
             IN  ret = Ok(from_chars(SubSeq(InChars, 1, k - 1)
                                     \o char_to_uppercase(InChars[k])
                                     \o SubSeq(InChars, k + 1, Len(InChars))))

\* The byte offset at which the current capitalizer call splits its input.
SplitOffset ==
    IF op \in CapitalizeOps THEN 1 ELSE split_idx(input.val)

\* C3: capitalize and capitalize_untrimmed never abort: every call returns
\* a string, and the split offset neither exceeds the byte length nor falls
\* inside a multi-byte scalar value.
C3_CapitalizersNeverAbort ==
    Called(AllCapitalizers) =>
        /\ ret.tag = "Ok"
        /\ ret.opt = "Some"
        /\ Len(input.val) > 0 =>
             /\ SplitOffset <= Len(input.val)
             /\ is_char_boundary(input.val, SplitOffset)

\* C4: on a decoded optional string, trim_optional_string gives absent for
\* absent, absent for a present value that is empty after trimming, and
\* otherwise present with exactly the trimmed value; a present result is
\* never empty and never begins or ends with whitespace.
C4_TrimOptionalString ==
    (Called({"trim_optional_string"}) /\ input.tag = "Ok") =>
        /\ input.opt = "None" => ret = OkNone
        /\ (input.opt = "Some" /\ Trimmed(InChars) = <<>>) => ret = OkNone
        /\ (input.opt = "Some" /\ Trimmed(InChars) # <<>>) =>
             ret = Ok(from_chars(Trimmed(InChars)))
        /\ ret.opt = "Some" =>
             /\ OutChars # <<>>
             /\ NoOuterWhitespace(OutChars)

\* C4 witness: a present, non-empty, all-whitespace value came back absent.
C4_Witness ==
    /\ Called({"trim_optional_string"})
    /\ input.tag = "Ok"
    /\ input.opt = "Some"
    /\ Len(InChars) > 1
    /\ ret = OkNone

\* C5: on a decoded string v, trim_string gives v without its leading and
\* trailing whitespace, everything between the first and last
\* non-whitespace scalar value unchanged (interior whitespace kept); the
\* result never begins or ends with whitespace and is no longer than v.
C5_TrimString ==
    (Called({"trim_string"}) /\ input.tag = "Ok") =>
        /\ ret = Ok(from_chars(Trimmed(InChars)))
        /\ NoOuterWhitespace(OutChars)
        /\ Len(OutChars) <= Len(InChars)
        /\ Len(ret.val) <= Len(input.val)

\* C5 witness: leading and trailing whitespace removed, interior whitespace
\* kept.
C5_Witness ==
    /\ Called({"trim_string"})
    /\ input.tag = "Ok"
    /\ Len(InChars) > 0
    /\ is_whitespace(InChars[1])
    /\ is_whitespace(InChars[Len(InChars)])
    /\ Len(OutChars) = Len(InChars) - 2
    /\ \E i \in 1..Len(OutChars) : is_whitespace(OutChars[i])

\* C6: trim_string and trim_optional_string fail exactly when the decoder
\* fails: a decoder error is returned unchanged with no value, and a decoder
\* success always gives a success result.
C6_DecoderErrorPropagated ==
    Called(TrimOps) =>
        /\ ret.tag \in {"Ok", "Err"}
        /\ input.tag = "Err" => ret = Err(input.err)
        /\ input.tag = "Ok" => ret.tag = "Ok" /\ ret.err = "none"
        /\ ret.tag = "Err" <=> input.tag = "Err"

\* C6 witness: trim_optional_string returned the decoder's error.
C6_Witness ==
    /\ Called({"trim_optional_string"})
    /\ input.tag = "Err"
    /\ input.err = "invalid_type"
    /\ ret.tag = "Err"
    /\ ret.err = "invalid_type"

\* C7: for every s whose first scalar value is whitespace, capitalize(s)
\* returns s unchanged.
C7_CapitalizeLeadingWhitespace ==
    (Called(CapitalizeOps) /\ InChars # <<>> /\ is_whitespace(Head(InChars))) =>
        ret = Ok(input.val)

\* C8: capitalize(s) and capitalize_untrimmed(s) have as many scalar values
\* as s, for every s.
C8_ScalarCountPreserved ==
    Called(AllCapitalizers) =>
        /\ ret.tag = "Ok"
        /\ Len(OutChars) = Len(InChars)

\* C9: for every non-empty s of whitespace only (of any byte width),
\* capitalize_untrimmed(s) returns s unchanged.
C9_UntrimmedWhitespaceOnly ==
    (/\ Called(CapitalizeUntrimmedOps)
     /\ InChars # <<>>
     /\ \A i \in 1..Len(InChars) : is_whitespace(InChars[i])) =>
        ret = Ok(input.val)

\* C10: capitalize and capitalize_untrimmed are idempotent: applied to a
\* string the same operation returned, the operation returns again and
\* gives that same string.
C10_Idempotent ==
    pc = "reapplied" =>
        /\ ret.tag = "Ok"
        /\ ret = prev.ret

\* C10 witness: the first call changed its input, the second call changed
\* nothing.
C10_Witness ==
    /\ pc = "reapplied"
    /\ op = "str::capitalize"
    /\ prev.input.val # prev.ret.val
    /\ ret = prev.ret

====
